---- MODULE Spec2Model ----
(***************************************************************************)
(* Botanical telemetry API (scripts/telemetry/telemetry_api.py).           *)
(*                                                                         *)
(* Three execution contexts share the module-level _cache:                 *)
(*   "main"  the importing thread; it primes the cache with one _collect() *)
(*           call, starts the refresh thread and then serves requests;     *)
(*   "bg"    the daemon thread running _background_loop;                   *)
(*   "http"  the event loop; the four handlers are `async def` without an  *)
(*           await, so one handler invocation runs at a time.              *)
(*                                                                         *)
(* Time is time.time() counted in quanta of 1/30 s, so that round(x, 1)    *)
(* (tenths of a second) is a real rounding: one tenth is three quanta.     *)
(* The clock is taken to be non-decreasing.  time.sleep() is abstracted to *)
(* a step of the refresh thread; the clock advances on its own.            *)
(*                                                                         *)
(* Six specifications share the variables and the initial state:           *)
(*   Spec, FairSpec  the threads, the lock and the handlers; _collect() is *)
(*                   followed through its steps without its data;          *)
(*   BuilderSpec     the same threads without handlers and clock, with the *)
(*                   data of _collect(): probe results, gauges, payload;   *)
(*   ProbeSpec       the probe functions called on their own;              *)
(*   LegacySpec      the version 1.0.0 service shipped with the Ansible    *)
(*                   role (next_gen/ansible/roles/telemetry/files);        *)
(*   BackupSpec      `main.py --backup` of next_gen: BackupManager;        *)
(*   DetectSpec      `main.py --detect-backend`: AuthBackendDetector.      *)
(***************************************************************************)
EXTENDS Integers, FiniteSets, Sequences, TLC

\* Bounds of the model: the number of _collect() calls, time.time() when the
\* module is loaded (in quanta, at least 2 so that a tenth of a second has
\* passed since the epoch; one quantum before a full second, so that int()
\* of the time changes while the model runs), and the quanta that pass
\* afterwards.
MaxTick == 3
StartTime == 29
MaxElapsed == 2

VARIABLES
    now,          \* time.time(), in quanta
    procStart,    \* time.time() when the module was loaded (never changes)
    cache,        \* _cache: [status, prometheus, ts]
    lock,         \* holder of _cache._lock: "free", "main", "bg" or "http"
    pc,           \* position of "main" and "bg"
    tick,         \* number of _collect() calls started so far
    payload,      \* _collect local: the status dict being published
    prom,         \* _collect local: generate_latest(registry)
    hung,         \* a probe of the running _collect() blocks forever
    outcome,      \* how the latest _collect() call ended
    cacheAtStart, \* the cache when the latest _collect() call began
    tsOf,         \* tsOf[k]: the ts installed by the write of tick k, -1 if none
    lastPub,      \* tick of the last completed _Cache.write (0: none)
    hpc,          \* position of the handler invocation on the event loop
    hkind,        \* which handler is running
    hStatus,      \* handler local: the copy of the status read
    hTs,          \* handler local: the ts read
    hProm,        \* handler local: the exposition bytes read
    hAge,         \* handler local: cache_age_s, in tenths of a second
    hNow,         \* the time.time() the handler used for cache_age_s
    hOverlap,     \* ticks whose _Cache.write overlapped this read_status call
    hPubAtRead,   \* lastPub when the handler read the cache
    hPubAtAge,    \* lastPub when the handler computed cache_age_s
    hWindow,      \* tick whose probes were running when the handler read
    prev,         \* what the previous handler invocation returned
    host,         \* what the probes of the running _collect() call find
    loc,          \* _collect locals: the results of its probes
    registry,     \* the values of the four gauges of the registry
    probe,        \* a probe function called on its own: arguments and result
    legacy,       \* the version 1.0.0 service of the Ansible role
    backup,       \* main.py --backup: the backup directory and the run
    detector      \* main.py --detect-backend: the host's signals and the result

vars == <<now, procStart, cache, lock, pc, tick, payload, prom, hung, outcome,
          cacheAtStart, tsOf, lastPub, hpc, hkind, hStatus, hTs, hProm, hAge,
          hNow, hOverlap, hPubAtRead, hPubAtAge, hWindow, prev, host, loc,
          registry, probe, legacy, backup, detector>>

\* The data of one _collect() call, and the two views that stand alone.
builderVars == <<host, loc, registry>>
toolVars == <<backup, detector>>
otherVars == <<builderVars, probe, legacy, toolVars>>

collectorVars == <<tick, payload, prom, hung, outcome, cacheAtStart>>
handlerVars == <<hpc, hkind, hStatus, hTs, hProm, hAge, hNow, hOverlap,
                 hPubAtRead, hPubAtAge, hWindow, prev>>

Threads == {"main", "bg"}
Handlers == {"public_status", "health", "metrics", "status_legacy"}

\* self.status = {} : the empty dict, no tick produced it.
EmptyStatus == [tick |-> 0, ts |-> 0]

\* _Cache.__init__
EmptyCache == [status |-> EmptyStatus, prometheus |-> 0, ts |-> 0]

NoRead == [tick |-> -1, ts |-> -1]
NoPrev == [tick |-> 0, age |-> -1]

\* round(x, 1) of a duration d given in quanta, in tenths of a second.
\* A tenth is three quanta, so no duration lies half-way between two tenths.
Round1(d) == (d + 1) \div 3

\* int(x) of a non-negative time given in quanta, in whole seconds.
IntSeconds(t) == t \div 30

\* round(time.time() - ts, 1)
CacheAgeNoTs(t, ts) == Round1(t)
CacheAge(t, ts) == Round1(t - ts)

\* `with self._lock:` can be entered only when nobody holds the lock.
CanAcquireUnlocked(l) == TRUE
CanAcquire(l) == l = "free"

\* _collect() takes no lock before _cache.write: entering it leaves the lock.
LockOnEntryHeld(t, l) == t
LockOnEntry(t, l) == l

\* The except clauses only print: the cache is what it was.
OnCollectErrorClear(c) == EmptyCache
OnCollectError(c) == c

\* Where the refresh thread goes after the except clause: time.sleep().
ExceptTargetDead == "dead"
ExceptTarget == "sleep"

\* uvicorn serves requests only once the module has been loaded.
ServerUpEarly(p) == TRUE
ServerUp(p) == p["main"] = "serve"

\* self.status = status
InstalledStatusEmpty(p) == EmptyStatus
InstalledStatus(p) == p

\* self.ts = time.time()
WriteTsZero(t) == 0
WriteTs(t) == t

InRead == hpc \in {"r_lock", "r_status", "r_prom"}
InWrite(t) == pc[t] \in {"w_lock", "w_status", "w_prom", "w_ts"}
InProbes(t) == pc[t] \in {"c_probes", "c_gauges", "c_payload"}

\* Where a thread continues after its _collect() call.
AfterCollect(t) == IF t = "main" THEN "spawn" ELSE "sleep"
AfterExcept(t) == IF t = "main" THEN "spawn" ELSE ExceptTarget

\* Before the first _collect() call: no probe has run, and a Gauge that was
\* never set reads 0.
NoHost == [none |-> TRUE]
NoLocals == [at |-> "none"]
NewRegistry == [rstudio |-> 0, terminal |-> 0, projects_free |-> 0,
                data_free |-> 0]
NoCall == [fn |-> "none"]

\* The version 1.0.0 service: its eight gauges, and no request in progress.
LegacyRegistry ==
    [rstudio |-> 0, terminal |-> 0,
     projects_total |-> 0, projects_used |-> 0, projects_free |-> 0,
     data_total |-> 0, data_used |-> 0, data_free |-> 0]
LegacyIdle == [pc |-> "idle", kind |-> "none", probes |-> {},
               registry |-> LegacyRegistry, response |-> "none"]

\* Before the first `main.py --backup`: no directory under BACKUP_BASE_DIR.
NoBackup ==
    [pc |-> "idle", dirs |-> {}, stamp |-> 0, made |-> FALSE, i |-> 0,
     copied |-> 0, failed |-> 0, skipped |-> 0, removed |-> {},
     ret |-> "none", exit |-> -1]

\* Before `main.py --detect-backend`.
NoDetection == [fn |-> "none"]

Init ==
    /\ now = StartTime
    /\ procStart = now
    /\ cache = EmptyCache
    /\ lock = "free"
    /\ pc = [t \in Threads |-> IF t = "main" THEN "prime" ELSE "unstarted"]
    /\ tick = 0
    /\ payload = EmptyStatus
    /\ prom = 0
    /\ hung = FALSE
    /\ outcome = "none"
    /\ cacheAtStart = EmptyCache
    /\ tsOf = [k \in 0..MaxTick |-> IF k = 0 THEN 0 ELSE -1]
    /\ lastPub = 0
    /\ hpc = "idle"
    /\ hkind = "health"
    /\ hStatus = NoRead
    /\ hTs = -1
    /\ hProm = -1
    /\ hAge = -1
    /\ hNow = -1
    /\ hOverlap = {}
    /\ hPubAtRead = 0
    /\ hPubAtAge = 0
    /\ hWindow = 0
    /\ prev = NoPrev
    /\ host = NoHost
    /\ loc = NoLocals
    /\ registry = NewRegistry
    /\ probe = NoCall
    /\ legacy = LegacyIdle
    /\ backup = NoBackup
    /\ detector = NoDetection

\* time.time() moves on.
Tick ==
    /\ now < StartTime + MaxElapsed
    /\ now' = now + 1
    /\ UNCHANGED <<otherVars,
                   procStart, cache, lock, pc, collectorVars, tsOf, lastPub,
                   handlerVars>>

----------------------------------------------------------------------------
\* _collect(), called by "main" (line 267) and by "bg" (line 259).

CollectEnter(t) ==
    /\ pc[t] = IF t = "main" THEN "prime" ELSE "loop"
    /\ tick < MaxTick
    /\ ~hung
    /\ tick' = tick + 1
    /\ outcome' = "running"
    /\ cacheAtStart' = cache
    /\ lock' = LockOnEntry(t, lock)
    /\ pc' = [pc EXCEPT ![t] = "c_probes"]
    /\ UNCHANGED <<otherVars,
                   now, procStart, cache, payload, prom, hung, tsOf, lastPub,
                   handlerVars>>

\* Lines 193-209 (system metrics and probes), then 212-218 (gauges).
CollectStep(t) ==
    /\ pc[t] \in {"c_probes", "c_gauges"}
    /\ ~hung
    /\ pc' = [pc EXCEPT ![t] = IF pc[t] = "c_probes" THEN "c_gauges"
                                                    ELSE "c_payload"]
    /\ UNCHANGED <<otherVars,
                   now, procStart, cache, lock, collectorVars, tsOf, lastPub,
                   handlerVars>>

\* Lines 220-252: build the payload, render the registry, call _cache.write.
CollectPayload(t) ==
    /\ pc[t] = "c_payload"
    /\ ~hung
    /\ payload' = [tick |-> tick, ts |-> IntSeconds(now)]
    /\ prom' = tick
    /\ pc' = [pc EXCEPT ![t] = "w_lock"]
    /\ hOverlap' = IF InRead THEN hOverlap \cup {tick} ELSE hOverlap
    /\ UNCHANGED <<otherVars,
                   now, procStart, cache, lock, tick, hung, outcome,
                   cacheAtStart, tsOf, lastPub, hpc, hkind, hStatus, hTs,
                   hProm, hAge, hNow, hPubAtRead, hPubAtAge, hWindow, prev>>

\* An exception not caught inside _collect() leaves it.
CollectRaise(t) ==
    /\ pc[t] \in {"c_probes", "c_payload"}
    /\ ~hung
    /\ outcome' = "failed"
    /\ pc' = [pc EXCEPT ![t] = "except"]
    /\ UNCHANGED <<otherVars,
                   now, procStart, cache, lock, tick, payload, prom, hung,
                   cacheAtStart, tsOf, lastPub, handlerVars>>

\* A probe (the CPU window, a process or connection scan) never returns.
CollectHang(t) ==
    /\ pc[t] = "c_probes"
    /\ ~hung
    /\ hung' = TRUE
    /\ UNCHANGED <<otherVars,
                   now, procStart, cache, lock, pc, tick, payload, prom,
                   outcome, cacheAtStart, tsOf, lastPub, handlerVars>>

\* Lines 260-261 and 268-269: print the error.
Except(t) ==
    /\ pc[t] = "except"
    /\ cache' = OnCollectError(cache)
    /\ pc' = [pc EXCEPT ![t] = AfterExcept(t)]
    /\ UNCHANGED <<otherVars,
                   now, procStart, lock, collectorVars, tsOf, lastPub,
                   handlerVars>>

----------------------------------------------------------------------------
\* _Cache.write (lines 88-93), one step per statement.

WriteAcquire(t) ==
    /\ pc[t] = "w_lock"
    /\ CanAcquire(lock)
    /\ lock' = t
    /\ pc' = [pc EXCEPT ![t] = "w_status"]
    /\ UNCHANGED <<otherVars,
                   now, procStart, cache, collectorVars, tsOf, lastPub,
                   handlerVars>>

WriteStatus(t) ==
    /\ pc[t] = "w_status"
    /\ cache' = [cache EXCEPT !.status = InstalledStatus(payload)]
    /\ pc' = [pc EXCEPT ![t] = "w_prom"]
    /\ UNCHANGED <<otherVars,
                   now, procStart, lock, collectorVars, tsOf, lastPub,
                   handlerVars>>

WritePrometheus(t) ==
    /\ pc[t] = "w_prom"
    /\ cache' = [cache EXCEPT !.prometheus = prom]
    /\ pc' = [pc EXCEPT ![t] = "w_ts"]
    /\ UNCHANGED <<otherVars,
                   now, procStart, lock, collectorVars, tsOf, lastPub,
                   handlerVars>>

\* self.ts = time.time(), and the `with` block ends.
WriteTimestamp(t) ==
    /\ pc[t] = "w_ts"
    /\ cache' = [cache EXCEPT !.ts = WriteTs(now)]
    /\ tsOf' = [tsOf EXCEPT ![tick] = now]
    /\ lastPub' = tick
    /\ lock' = "free"
    /\ outcome' = "ok"
    /\ pc' = [pc EXCEPT ![t] = AfterCollect(t)]
    /\ UNCHANGED <<otherVars,
                   now, procStart, tick, payload, prom, hung, cacheAtStart,
                   handlerVars>>

----------------------------------------------------------------------------
\* Lines 271-275: start the refresh thread; the server then takes requests.
Spawn ==
    /\ pc["main"] = "spawn"
    /\ pc' = [pc EXCEPT !["main"] = "serve", !["bg"] = "loop"]
    /\ UNCHANGED <<otherVars,
                   now, procStart, cache, lock, collectorVars, tsOf, lastPub,
                   handlerVars>>

\* Line 262: time.sleep(REFRESH_INTERVAL), then the next iteration.
Sleep ==
    /\ pc["bg"] = "sleep"
    /\ pc' = [pc EXCEPT !["bg"] = "loop"]
    /\ UNCHANGED <<otherVars,
                   now, procStart, cache, lock, collectorVars, tsOf, lastPub,
                   handlerVars>>

----------------------------------------------------------------------------
\* The request handlers (lines 282-313).  public_status, health and
\* status_legacy call _cache.read_status(); metrics calls read_prometheus().

ReadsStatus(k) == k \in {"public_status", "health", "status_legacy"}
ReportsAge(k) == k \in {"public_status", "health"}

\* A request arrives; the handler calls into the cache.
HInvoke(k) ==
    /\ hpc = "idle"
    /\ ServerUp(pc)
    /\ hkind' = k
    /\ hpc' = "r_lock"
    /\ hOverlap' = {tick} \cap {j \in 1..MaxTick : \E t \in Threads : InWrite(t)}
    /\ UNCHANGED <<otherVars,
                   now, procStart, cache, lock, pc, collectorVars, tsOf,
                   lastPub, hStatus, hTs, hProm, hAge, hNow, hPubAtRead,
                   hPubAtAge, hWindow, prev>>

\* `with self._lock:` in read_status (line 97) and read_prometheus (line 102).
HAcquire ==
    /\ hpc = "r_lock"
    /\ CanAcquire(lock)
    /\ lock' = "http"
    /\ hpc' = IF ReadsStatus(hkind) THEN "r_status" ELSE "r_prom"
    /\ UNCHANGED <<otherVars,
                   now, procStart, cache, pc, collectorVars, tsOf, lastPub,
                   hkind, hStatus, hTs, hProm, hAge, hNow, hOverlap,
                   hPubAtRead, hPubAtAge, hWindow, prev>>

\* return dict(self.status), self.ts  -- a copy; the `with` block ends.
HReadStatus ==
    /\ hpc = "r_status"
    /\ hStatus' = cache.status
    /\ hTs' = cache.ts
    /\ hWindow' = IF \E t \in Threads : InProbes(t) THEN tick ELSE 0
    /\ hPubAtRead' = lastPub
    /\ lock' = "free"
    /\ hpc' = IF ReportsAge(hkind) THEN "age" ELSE "done"
    /\ UNCHANGED <<otherVars,
                   now, procStart, cache, pc, collectorVars, tsOf, lastPub,
                   hkind, hProm, hAge, hNow, hOverlap, hPubAtAge, prev>>

\* return self.prometheus; the `with` block ends.
HReadPrometheus ==
    /\ hpc = "r_prom"
    /\ hProm' = cache.prometheus
    /\ hWindow' = IF \E t \in Threads : InProbes(t) THEN tick ELSE 0
    /\ hPubAtRead' = lastPub
    /\ lock' = "free"
    /\ hpc' = "done"
    /\ UNCHANGED <<otherVars,
                   now, procStart, cache, pc, collectorVars, tsOf, lastPub,
                   hkind, hStatus, hTs, hAge, hNow, hOverlap, hPubAtAge, prev>>

\* payload[k] = v of public_status (line 286), seen from the cache.  payload
\* is the dict read_status returned, which is dict(self.status) (line 98), a
\* new dict with the items of the cached one: the item is set on the copy
\* and the dict the cache holds keeps the items it had.
CachedAfterSetItemShared(st, copy, k, v) ==
    IF st = copy THEN (k :> v) @@ st ELSE st
CachedAfterSetItem(st, copy, k, v) == st

\* round(time.time() - ts, 1), lines 286 and 294; public_status stores it in
\* its payload, health in a dict of its own.
HAge ==
    /\ hpc = "age"
    /\ hAge' = CacheAge(now, hTs)
    /\ hNow' = now
    /\ hPubAtAge' = lastPub
    /\ hpc' = "done"
    /\ cache' = IF hkind = "public_status"
                THEN [cache EXCEPT
                         !.status = CachedAfterSetItem(@, hStatus,
                                        "cache_age_s", CacheAge(now, hTs))]
                ELSE cache
    /\ UNCHANGED <<otherVars,
                   now, procStart, lock, pc, collectorVars, tsOf,
                   lastPub, hkind, hStatus, hTs, hProm, hOverlap, hPubAtRead,
                   hWindow, prev>>

\* The tick of the snapshot a finished handler invocation answers with.
Returned == IF ReadsStatus(hkind) THEN hStatus.tick ELSE hProm

\* The keys of a status dict: {} has none, a payload of _collect() has all
\* of them (lines 220-251).
HasKey(st, k) == st # EmptyStatus

\* c.get(k, default).  What a tick sampled for k is written as the tick.
GetIndexed(st, k, default) ==
    IF HasKey(st, k) THEN [raised |-> FALSE, value |-> st.tick]
                     ELSE [raised |-> TRUE, value |-> default]
Get(st, k, default) ==
    IF HasKey(st, k) THEN [raised |-> FALSE, value |-> st.tick]
                     ELSE [raised |-> FALSE, value |-> default]

\* The four fields status_legacy looks up (lines 309-312), each through two
\* nested .get calls with the defaults {} and 0.
LegacyFields ==
    [rstudio_sessions |-> Get(hStatus, "sessions", 0),
     terminal_sessions |-> Get(hStatus, "sessions", 0),
     cpu_pct |-> Get(hStatus, "cpu", 0),
     ram_pct |-> Get(hStatus, "ram", 0)]

\* What a finished handler invocation sends: the response of its return
\* statement, or an error response if an exception left the handler.
Response ==
    CASE hkind = "public_status" ->
             [result |-> "response", status |-> "document",
              body |-> [snapshot |-> hStatus.tick, cache_age_s |-> hAge]]
      [] hkind = "health" ->
             [result |-> "response", status |-> "ok",
              body |-> [cache_age_s |-> hAge]]
      [] hkind = "metrics" ->
             [result |-> "response", status |-> "text", body |-> hProm]
      [] hkind = "status_legacy" ->
             IF \E f \in DOMAIN LegacyFields : LegacyFields[f].raised
             THEN [result |-> "error", status |-> "KeyError", body |-> 0]
             ELSE [result |-> "response", status |-> "ok",
                   body |-> [f \in DOMAIN LegacyFields |->
                                LegacyFields[f].value]]

\* The response is sent; the handler's locals are gone.
HReturn ==
    /\ hpc = "done"
    /\ prev' = [tick |-> Returned,
                age |-> IF ReportsAge(hkind) THEN hAge ELSE -1]
    /\ hpc' = "idle"
    /\ hStatus' = NoRead
    /\ hTs' = -1
    /\ hProm' = -1
    /\ hAge' = -1
    /\ hNow' = -1
    /\ hOverlap' = {}
    /\ hPubAtRead' = 0
    /\ hPubAtAge' = 0
    /\ hWindow' = 0
    /\ UNCHANGED <<otherVars,
                   now, procStart, cache, lock, pc, collectorVars, tsOf,
                   lastPub, hkind>>

----------------------------------------------------------------------------
Collector(t) ==
    \/ CollectEnter(t)
    \/ CollectStep(t)
    \/ CollectPayload(t)
    \/ CollectRaise(t)
    \/ CollectHang(t)
    \/ Except(t)
    \/ WriteAcquire(t)
    \/ WriteStatus(t)
    \/ WritePrometheus(t)
    \/ WriteTimestamp(t)

Handler ==
    \/ \E k \in Handlers : HInvoke(k)
    \/ HAcquire
    \/ HReadStatus
    \/ HReadPrometheus
    \/ HAge
    \/ HReturn

\* The steps of the three execution contexts.
Run ==
    \/ \E t \in Threads : Collector(t)
    \/ Spawn
    \/ Sleep
    \/ Handler

Next ==
    \/ Tick
    \/ Run

Spec == Init /\ [][Next]_vars

\* Scheduling: every thread that can run keeps running.  A blocked probe is
\* the one thing that stops a thread (no collector step is enabled then).
\* Requests arrive or not (no fairness on HInvoke).  The lock is handed to a
\* waiting handler eventually: the writer holds it for three assignments and
\* then sleeps REFRESH_INTERVAL seconds.
\* No step of any thread is enabled or disabled by the value of time.time(),
\* so the fair specification leaves the clock where it is: that removes no
\* schedule of the threads.
HandlerRun ==
    \/ HReadStatus
    \/ HReadPrometheus
    \/ HAge
    \/ HReturn

FairSpec ==
    /\ Init
    /\ [][Run]_vars
    /\ WF_vars(Collector("main") \/ Spawn)
    /\ WF_vars(Collector("bg") \/ Sleep)
    /\ WF_vars(HandlerRun)
    /\ SF_vars(HAcquire)

----------------------------------------------------------------------------
\* The probes (lines 113-181), as functions of what psutil, shutil and os
\* report.  A process is the record process_iter yields: name and cmdline are
\* <<>> for None and <<x>> for the value x; cpu is what cpu_percent() returns
\* in hundredths of a percent, rss is memory_info.rss in units of 10^4 bytes
\* (NoMemInfo: memory_info is None), lived is time.time() - create_time in
\* seconds, err is the psutil error the process raises when it is asked for
\* its CPU share.  Disk sizes are in units of 10^7 bytes.

TOP_SESSIONS == 5
TtydPort == 7681
OllamaPort == 11434
NoMemInfo == -1

Min(a, b) == IF a < b THEN a ELSE b

\* round(n / d) and round(n / d, k) as Python rounds: to the nearest, a tie
\* to the even neighbour.
RoundDiv(n, d) ==
    LET q == n \div d
        r == n % d
    IN  IF 2 * r < d THEN q
        ELSE IF 2 * r > d THEN q + 1
        ELSE IF q % 2 = 0 THEN q ELSE q + 1

\* `sub in s` for the strings of the model.
Containing(sub) ==
    CASE sub = "rsession" ->
             {"rsession", "/usr/lib/rstudio-server/bin/rsession"}
      [] sub = "ollama" -> {"ollama", "/usr/local/bin/ollama"}
      [] sub = "sss" ->
             {"passwd: files sss", "passwd: files sss winbind",
              "passwd: files winbind sss"}
      [] sub = "winbind" ->
             {"passwd: files winbind", "passwd: files sss winbind",
              "passwd: files winbind sss"}
      [] OTHER -> {sub}
IsIn(sub, s) == s \in Containing(sub)

\* The classes an exception is an instance of ("none": nothing was raised).
Bases(e) ==
    CASE e = "none" -> {}
      [] e = "OSError" -> {"OSError", "Exception"}
      [] e = "NoSuchProcess" -> {"NoSuchProcess", "Error", "Exception"}
      [] e = "ZombieProcess" ->
             {"ZombieProcess", "NoSuchProcess", "Error", "Exception"}
      [] e = "AccessDenied" -> {"AccessDenied", "Error", "Exception"}
      [] OTHER -> {e, "Exception"}

\* `except classes:` catches e.
Caught(e, classes) == Bases(e) \cap classes # {}

Returns(v) == [raised |-> "none", value |-> v]
Raises(e) == [raised |-> e, value |-> 0]

\* p.info["name"] or "", p.info["cmdline"] or []
NameOrEmpty(p) == IF p.name = <<>> THEN "" ELSE p.name[1]
CmdlineOrEmpty(p) == IF p.cmdline = <<>> THEN <<>> ELSE p.cmdline[1]

\* Lines 113-123.
MatchesProc(name_sub, p) ==
    \/ IsIn(name_sub, NameOrEmpty(p))
    \/ \E i \in DOMAIN CmdlineOrEmpty(p) : IsIn(name_sub, CmdlineOrEmpty(p)[i])

CountProcs(name_sub, procs) ==
    Cardinality({i \in DOMAIN procs : MatchesProc(name_sub, procs[i])})

\* count_processes_by_name of the ansible role's v1.0.0 (lines 31-41):
\* `name_substring in None` raises TypeError, which the except clause does
\* not list.
CountProcessesByName(name_substring, procs) ==
    IF \E i \in DOMAIN procs : procs[i].name = <<>>
    THEN Raises("TypeError")
    ELSE Returns(CountProcs(name_substring, procs))

\* Lines 126-140.
DiskInfoZeros(d) ==
    IF ~d.exists \/ Caught(d.err, {"OSError"})
    THEN [available |-> FALSE, total_gb |-> 0, used_gb |-> 0, free_gb |-> 0,
          pct |-> 0]
    ELSE [available |-> TRUE,
          total_gb |-> RoundDiv(d.total, 10),
          used_gb |-> RoundDiv(d.used, 10),
          free_gb |-> RoundDiv(d.free, 10),
          pct |-> IF d.total # 0 THEN RoundDiv(d.used * 1000, d.total)
                                 ELSE 0]
DiskInfo(d) ==
    IF ~d.exists THEN [available |-> FALSE]
    ELSE IF Caught(d.err, {"OSError"}) THEN [available |-> FALSE]
    ELSE [available |-> TRUE,
          total_gb |-> RoundDiv(d.total, 10),
          used_gb |-> RoundDiv(d.used, 10),
          free_gb |-> RoundDiv(d.free, 10),
          pct |-> IF d.total # 0 THEN RoundDiv(d.used * 1000, d.total)
                                 ELSE 0]

\* Lines 162-169.
TtydConnections(scan) ==
    IF Caught(scan.err, {"AccessDenied", "OSError"}) THEN 0
    ELSE Cardinality({i \in DOMAIN scan.conns :
                         /\ scan.conns[i].port = TtydPort
                         /\ scan.conns[i].status = "ESTABLISHED"})

\* Lines 172-181.
OllamaActiveProcessOnly(procs, scan) ==
    CountProcs("ollama", procs) > 0
OllamaActive(procs, scan) ==
    IF CountProcs("ollama", procs) > 0 THEN TRUE
    ELSE IF Caught(scan.err, {"AccessDenied", "OSError"}) THEN FALSE
    ELSE \E i \in DOMAIN scan.conns :
             /\ scan.conns[i].port = OllamaPort
             /\ scan.conns[i].status = "ESTABLISHED"

\* Lines 150-155: the dict appended for one rsession process.
SessionEntryWithPid(p) ==
    [pid |-> p.pid,
     cpu_pct |-> RoundDiv(p.cpu, 10),
     mem_mb |-> RoundDiv(p.rss, 10),
     age_min |-> RoundDiv(p.lived, 60)]
SessionEntry(p) ==
    [cpu_pct |-> RoundDiv(p.cpu, 10),
     mem_mb |-> RoundDiv(p.rss, 10),
     age_min |-> RoundDiv(p.lived, 60)]

\* Lines 147-157: the loop over the processes; acc is `sessions`.  The CPU
\* share is asked first and may raise p.err; memory_info.rss of None raises
\* AttributeError.
RECURSIVE SampleSessions(_, _)
SampleSessions(procs, acc) ==
    IF procs = <<>> THEN Returns(acc)
    ELSE LET p == Head(procs)
         IN  IF ~IsIn("rsession", NameOrEmpty(p))
             THEN SampleSessions(Tail(procs), acc)
             ELSE IF Caught(p.err, {"NoSuchProcess", "AccessDenied"})
             THEN SampleSessions(Tail(procs), acc)
             ELSE IF p.err # "none" THEN Raises(p.err)
             ELSE IF p.rss = NoMemInfo THEN Raises("AttributeError")
             ELSE SampleSessions(Tail(procs), Append(acc, SessionEntry(p)))

\* Line 158: sessions.sort(key=cpu_pct, reverse=True).  The sort is stable:
\* an entry goes behind every entry whose key is not smaller.
InsertBeforeEqual(sorted, e) ==
    LET k == Cardinality({i \in DOMAIN sorted :
                             sorted[i].cpu_pct > e.cpu_pct})
    IN  SubSeq(sorted, 1, k) \o <<e>> \o SubSeq(sorted, k + 1, Len(sorted))
InsertByCpu(sorted, e) ==
    LET k == Cardinality({i \in DOMAIN sorted :
                             sorted[i].cpu_pct >= e.cpu_pct})
    IN  SubSeq(sorted, 1, k) \o <<e>> \o SubSeq(sorted, k + 1, Len(sorted))

RECURSIVE SortByCpu(_)
SortByCpu(s) ==
    IF s = <<>> THEN <<>>
    ELSE InsertByCpu(SortByCpu(SubSeq(s, 1, Len(s) - 1)), s[Len(s)])

\* sessions[:n] for n >= 0
Take(s, n) == SubSeq(s, 1, Min(n, Len(s)))

\* f"Session {i + 1}" for the entry at 0-based index i, written for the
\* 1-based position k = i + 1.
Label(k) == <<"Session", k>>

\* Line 159.
Labelled(s) == [k \in 1..Len(s) |-> [label |-> Label(k)] @@ s[k]]

\* Lines 143-159.
TopRSessions(procs, n) ==
    LET r == SampleSessions(procs, <<>>)
    IN  IF r.raised # "none" THEN r
        ELSE Returns(Labelled(Take(SortByCpu(r.value), n)))

----------------------------------------------------------------------------
\* What a probe can find on the host.

MaxProcs == 3
MaxConns == 2

Proc(pid, name, cmdline, cpu, rss) ==
    [pid |-> pid, name |-> name, cmdline |-> cmdline, cpu |-> cpu,
     rss |-> rss, lived |-> 100, err |-> "none"]

\* Processes told apart by name and command line only.
NamedProcs ==
    {Proc(11, <<"rsession">>, <<<<"/usr/lib/rstudio-server/bin/rsession">>>>,
          120, 2048),
     Proc(12, <<"R">>, <<<<"/usr/lib/rstudio-server/bin/rsession">>>>, 0, 1),
     Proc(13, <<"ollama">>, <<<<"/usr/local/bin/ollama", "serve">>>>, 0, 1),
     Proc(14, <<"bash">>, <<>>, 0, 1),
     Proc(15, <<>>, <<<<"bash">>>>, 0, 1)}

SeqsUpTo(S, n) == UNION {[1..k -> S] : k \in 0..n}

\* A scan of the TCP connections: the error it raises, or the connections.
ConnKinds ==
    [port : {TtydPort, OllamaPort}, status : {"ESTABLISHED", "LISTEN"}]
ConnScans ==
    {[err |-> e, conns |-> <<>>] : e \in {"AccessDenied", "OSError"}}
    \cup {[err |-> "none", conns |-> c] : c \in SeqsUpTo(ConnKinds, MaxConns)}

\* A path: missing, or present with disk_usage failing or giving the sizes.
DiskUsages == {<<0, 0, 0>>, <<204, 99, 105>>, <<204, 204, 0>>, <<57, 12, 45>>}
Disk(exists, err, u) ==
    [exists |-> exists, err |-> err, total |-> u[1], used |-> u[2],
     free |-> u[3]]
DiskStates ==
    {Disk(FALSE, "none", <<0, 0, 0>>), Disk(TRUE, "OSError", <<0, 0, 0>>)}
    \cup {Disk(TRUE, "none", u) : u \in DiskUsages}

\* The variables of the version 3.2 service.
telemetryVars == <<now, procStart, cache, lock, pc, collectorVars, tsOf,
                   lastPub, handlerVars>>

----------------------------------------------------------------------------
\* _collect() with its data.  The steps below replace CollectStep and
\* CollectPayload, which only move through the call: they run the probes on
\* the host state drawn when the call starts, set the gauges and build the
\* payload; the call is entered and its result written and its errors
\* handled by the steps above.  This view has no handler and no clock step.

\* The five calls of the try block (lines 194-198), in order.
SysOrder ==
    <<"cpu_percent", "cpu_count", "virtual_memory", "swap_memory",
      "getloadavg">>

\* What the five calls return on the host: CPU share in hundredths of a
\* percent, sizes in units of 10^7 bytes, memory shares in hundredths of a
\* percent, load averages in thousandths.
SysSample ==
    [cpu_pct |-> 1234, cpu_count |-> 4,
     mem |-> <<[total |-> 1604, used |-> 803, percent |-> 5006]>>,
     swap |-> <<[total |-> 204, percent |-> 1250]>>,
     load_avg |-> <<1504, 996, 700>>]

\* Line 200-201.
SysDefaults ==
    [cpu_pct |-> 0, cpu_count |-> 1, mem |-> <<>>, swap |-> <<>>,
     load_avg |-> <<0, 0, 0>>]

\* Lines 193-201: sys.err is raised by the call sys.at; the one except
\* clause catches OSError and assigns all five locals.
SysBlock(sys) ==
    IF sys.err = "none" THEN Returns(SysSample)
    ELSE IF Caught(sys.err, {"OSError"}) THEN Returns(SysDefaults)
    ELSE Raises(sys.err)

\* Lines 223-237: the cpu, ram and swap entries of the payload.
SysFields(v) ==
    [cpu |-> [pct |-> RoundDiv(v.cpu_pct, 10),
              cores |-> v.cpu_count,
              load_1m |-> RoundDiv(v.load_avg[1], 10),
              load_5m |-> RoundDiv(v.load_avg[2], 10)],
     ram |-> IF v.mem # <<>>
             THEN [total_gb |-> RoundDiv(v.mem[1].total, 10),
                   used_gb |-> RoundDiv(v.mem[1].used, 10),
                   pct |-> RoundDiv(v.mem[1].percent, 10)]
             ELSE [total_gb |-> 0, used_gb |-> 0, pct |-> 0],
     swap |-> IF v.swap # <<>>
              THEN [total_gb |-> RoundDiv(v.swap[1].total, 10),
                    pct |-> RoundDiv(v.swap[1].percent, 10)]
              ELSE [total_gb |-> 0, pct |-> 0]]

\* The rsession processes of a host.
RSession(pid, cpu, rss, err) ==
    [Proc(pid, <<"rsession">>, <<>>, cpu, rss) EXCEPT !.err = err]

\* The host states a _collect() call meets.
HostSys ==
    {[err |-> "none", at |-> "none"],
     [err |-> "OSError", at |-> "getloadavg"],
     [err |-> "OSError", at |-> "virtual_memory"],
     [err |-> "RuntimeError", at |-> "swap_memory"]}
HostProcs ==
    {<<>>,
     <<RSession(21, 120, 2048, "none"), RSession(22, 875, 512, "none")>>,
     <<RSession(23, 0, 0, "AccessDenied")>>,
     <<RSession(24, 50, NoMemInfo, "none")>>}
HostScans ==
    {[err |-> "AccessDenied", conns |-> <<>>],
     [err |-> "none",
      conns |-> <<[port |-> TtydPort, status |-> "ESTABLISHED"]>>]}
HostMounts ==
    {Disk(FALSE, "none", <<0, 0, 0>>), Disk(TRUE, "none", <<204, 99, 105>>)}
HostStates ==
    [sys : HostSys, procs : HostProcs, scan : HostScans,
     tmp : {Disk(TRUE, "none", <<57, 12, 45>>)},
     nfs_home : {Disk(FALSE, "none", <<0, 0, 0>>)},
     projects : HostMounts, data : HostMounts]

\* PROJECTS_DISK_FREE.set(proj_disk["free_gb"] * 1e9): tenths of a GB back
\* to units of 10^7 bytes.
GaugeBytes(free_gb) == free_gb * 10

\* Lines 214-215 and 217-218: the gauge is set only for an available mount.
FreeGauge(old, info) ==
    IF info.available THEN GaugeBytes(info.free_gb) ELSE old

\* generate_latest(registry): the exposition bytes give the four gauges.
Render(reg, k) == [tick |-> k] @@ reg

\* Lines 220-251.
Payload(l, k, t) ==
    [tick |-> k, ts |-> IntSeconds(t), hostname |-> "host",
     cpu |-> SysFields(l.sys).cpu,
     ram |-> SysFields(l.sys).ram,
     swap |-> SysFields(l.sys).swap,
     sessions |-> [rstudio |-> l.r_sessions, terminal |-> l.ttyd_conns],
     disk |-> [tmp |-> l.tmp_disk, nfs_home |-> l.nfs_disk,
               projects |-> l.proj_disk],
     services |-> [ollama |-> l.ollama],
     r_sessions |-> l.top_r]

\* An exception leaves _collect(): as CollectRaise.
BuildFails(t) ==
    /\ outcome' = "failed"
    /\ pc' = [pc EXCEPT ![t] = "except"]

BEnter(t) ==
    /\ pc[t] = IF t = "main" THEN "prime" ELSE "loop"
    /\ tick < MaxTick
    /\ tick' = tick + 1
    /\ outcome' = "running"
    /\ cacheAtStart' = cache
    /\ lock' = LockOnEntry(t, lock)
    /\ pc' = [pc EXCEPT ![t] = "b_sys"]
    /\ host' \in HostStates
    /\ loc' = NoLocals
    /\ UNCHANGED <<now, procStart, cache, payload, prom, hung, tsOf, lastPub,
                   handlerVars, registry, probe, legacy,
                   toolVars>>

\* Lines 193-201.
BSys(t) ==
    /\ pc[t] = "b_sys"
    /\ LET r == SysBlock(host.sys)
       IN  IF r.raised # "none"
           THEN BuildFails(t) /\ UNCHANGED loc
           ELSE /\ loc' = [at |-> "sys", sys |-> r.value]
                /\ pc' = [pc EXCEPT ![t] = "b_probes"]
                /\ UNCHANGED outcome
    /\ UNCHANGED <<now, procStart, cache, lock, tick, payload, prom, hung,
                   cacheAtStart, tsOf, lastPub, handlerVars, host, registry,
                   probe, legacy, toolVars>>

\* Lines 203-209.
BProbes(t) ==
    /\ pc[t] = "b_probes"
    /\ LET top == TopRSessions(host.procs, TOP_SESSIONS)
       IN  IF top.raised # "none"
           THEN BuildFails(t) /\ UNCHANGED loc
           ELSE /\ loc' = [at |-> "probes", sys |-> loc.sys,
                           r_sessions |-> CountProcs("rsession", host.procs),
                           ttyd_conns |-> TtydConnections(host.scan),
                           tmp_disk |-> DiskInfo(host.tmp),
                           nfs_disk |-> DiskInfo(host.nfs_home),
                           proj_disk |-> DiskInfo(host.projects),
                           top_r |-> top.value,
                           ollama |-> OllamaActive(host.procs, host.scan)]
                /\ pc' = [pc EXCEPT ![t] = "b_gauges"]
                /\ UNCHANGED outcome
    /\ UNCHANGED <<now, procStart, cache, lock, tick, payload, prom, hung,
                   cacheAtStart, tsOf, lastPub, handlerVars, host, registry,
                   probe, legacy, toolVars>>

\* Lines 212-218.
BGauges(t) ==
    /\ pc[t] = "b_gauges"
    /\ LET data_d == DiskInfo(host.data)
       IN  /\ registry' =
                 [rstudio |-> loc.r_sessions,
                  terminal |-> loc.ttyd_conns,
                  projects_free |->
                      FreeGauge(registry.projects_free, loc.proj_disk),
                  data_free |-> FreeGauge(registry.data_free, data_d)]
           /\ loc' = [data_d |-> data_d] @@ [loc EXCEPT !.at = "gauges"]
    /\ pc' = [pc EXCEPT ![t] = "b_payload"]
    /\ UNCHANGED <<now, procStart, cache, lock, tick, payload, prom, hung,
                   outcome, cacheAtStart, tsOf, lastPub, handlerVars, host,
                   probe, legacy, toolVars>>

\* Lines 220-252: the payload, generate_latest, the call of _cache.write.
BPayload(t) ==
    /\ pc[t] = "b_payload"
    /\ payload' = Payload(loc, tick, now)
    /\ prom' = Render(registry, tick)
    /\ pc' = [pc EXCEPT ![t] = "w_lock"]
    /\ UNCHANGED <<now, procStart, cache, lock, tick, hung, outcome,
                   cacheAtStart, tsOf, lastPub, handlerVars, builderVars,
                   probe, legacy, toolVars>>

Builder(t) ==
    \/ BEnter(t)
    \/ BSys(t)
    \/ BProbes(t)
    \/ BGauges(t)
    \/ BPayload(t)
    \/ Except(t)
    \/ WriteAcquire(t)
    \/ WriteStatus(t)
    \/ WritePrometheus(t)
    \/ WriteTimestamp(t)

BuilderNext ==
    \/ \E t \in Threads : Builder(t)
    \/ Spawn
    \/ Sleep

BuilderSpec == Init /\ [][BuilderNext]_vars

----------------------------------------------------------------------------
\* The probe functions called on their own, on every input of a bounded set.

\* rsession processes with different CPU shares and with shares that are
\* equal once rounded (12.04 and 11.96 are both published as 12.0), one that
\* denies access, one without memory_info, and a process that is no
\* rsession.
TopProcs ==
    {RSession(c + r, c, r, "none") : c \in {120, 1204, 1196}, r \in {512, 2048}}
    \cup {RSession(23, 0, 0, "AccessDenied"),
          RSession(24, 50, NoMemInfo, "none"),
          Proc(14, <<"bash">>, <<>>, 9900, 1)}

CallTopRSessions ==
    /\ probe = NoCall
    /\ \E procs \in SeqsUpTo(TopProcs, MaxProcs),
          n \in (0..MaxProcs) \cup {TOP_SESSIONS} :
           probe' = [fn |-> "_top_r_sessions", procs |-> procs, n |-> n,
                     ret |-> TopRSessions(procs, n)]
    /\ UNCHANGED <<telemetryVars, builderVars, legacy, toolVars>>

CallOllamaActive ==
    /\ probe = NoCall
    /\ \E procs \in SeqsUpTo(NamedProcs, MaxProcs), scan \in ConnScans :
           probe' = [fn |-> "_ollama_active", procs |-> procs, scan |-> scan,
                     ret |-> OllamaActive(procs, scan)]
    /\ UNCHANGED <<telemetryVars, builderVars, legacy, toolVars>>

CallDiskInfo ==
    /\ probe = NoCall
    /\ \E d \in DiskStates :
           probe' = [fn |-> "_disk_info", d |-> d, ret |-> DiskInfo(d)]
    /\ UNCHANGED <<telemetryVars, builderVars, legacy, toolVars>>

\* The process counter of either version of the service.
CallCountProcs ==
    /\ probe = NoCall
    /\ \E procs \in SeqsUpTo(NamedProcs, MaxProcs),
          name_sub \in {"rsession", "ollama"} :
           \/ probe' = [fn |-> "_count_procs", procs |-> procs,
                        name_sub |-> name_sub,
                        ret |-> Returns(CountProcs(name_sub, procs))]
           \/ probe' = [fn |-> "count_processes_by_name", procs |-> procs,
                        name_sub |-> name_sub,
                        ret |-> CountProcessesByName(name_sub, procs)]
    /\ UNCHANGED <<telemetryVars, builderVars, legacy, toolVars>>

\* The call has returned; the next one can be made.
ProbeReturn ==
    /\ probe # NoCall
    /\ probe' = NoCall
    /\ UNCHANGED <<telemetryVars, builderVars, legacy, toolVars>>

ProbeNext ==
    \/ CallTopRSessions
    \/ CallOllamaActive
    \/ CallDiskInfo
    \/ CallCountProcs
    \/ ProbeReturn

ProbeSpec == Init /\ [][ProbeNext]_vars

----------------------------------------------------------------------------
\* The version 1.0.0 service (next_gen/ansible/roles/telemetry/files/
\* telemetry_api.py): no cache and no refresh thread; both handlers call
\* update_metrics() and answer from the gauges.

LegacyHandlers == {"metrics", "status"}

\* Line 50: the established connections on the terminal port.
EstablishedOn(port, conns) ==
    Cardinality({i \in DOMAIN conns : /\ conns[i].port = port
                                      /\ conns[i].status = "ESTABLISHED"})

LegacyStep(target, probed, reg) ==
    legacy' = [legacy EXCEPT !.pc = target,
                             !.probes = legacy.probes \cup probed,
                             !.registry = reg]

LegacyFail(probed) ==
    legacy' = [legacy EXCEPT !.pc = "done", !.response = "error",
                             !.probes = legacy.probes \cup probed]

\* A request for /metrics or /status arrives.
LRequest(k) ==
    /\ legacy.pc = "idle"
    /\ legacy' = [legacy EXCEPT !.pc = "count", !.kind = k, !.probes = {},
                                !.response = "none"]
    /\ UNCHANGED <<telemetryVars, builderVars, probe, toolVars>>

\* Lines 45-46.
LCountProcesses ==
    /\ legacy.pc = "count"
    /\ \E procs \in SeqsUpTo(NamedProcs, MaxProcs) :
           LET r == CountProcessesByName("rsession", procs)
           IN  IF r.raised # "none"
               THEN LegacyFail({"process_iter"})
               ELSE LegacyStep("connections", {"process_iter"},
                               [legacy.registry EXCEPT !.rstudio = r.value])
    /\ UNCHANGED <<telemetryVars, builderVars, probe, toolVars>>

\* Lines 49-53: any exception sets the gauge to 0.
LConnections ==
    /\ legacy.pc = "connections"
    /\ \E scan \in ConnScans :
           LegacyStep("projects", {"net_connections"},
                      [legacy.registry EXCEPT !.terminal =
                           IF scan.err # "none" THEN 0
                           ELSE EstablishedOn(TtydPort, scan.conns)])
    /\ UNCHANGED <<telemetryVars, builderVars, probe, toolVars>>

\* Lines 56-60 and 63-67: os.path.exists, then shutil.disk_usage unguarded.
LDiskUsage ==
    /\ legacy.pc \in {"projects", "data"}
    /\ \E d \in DiskStates :
           LET target == IF legacy.pc = "projects" THEN "data" ELSE "respond"
               reg == legacy.registry
           IN  IF ~d.exists THEN LegacyStep(target, {"exists"}, reg)
               ELSE IF d.err # "none" THEN LegacyFail({"exists", "disk_usage"})
               ELSE IF legacy.pc = "projects"
               THEN LegacyStep(target, {"exists", "disk_usage"},
                               [reg EXCEPT !.projects_total = d.total,
                                           !.projects_used = d.used,
                                           !.projects_free = d.free])
               ELSE LegacyStep(target, {"exists", "disk_usage"},
                               [reg EXCEPT !.data_total = d.total,
                                           !.data_used = d.used,
                                           !.data_free = d.free])
    /\ UNCHANGED <<telemetryVars, builderVars, probe, toolVars>>

\* Lines 73 and 79-86: the response is built from the gauges.
LRespond ==
    /\ legacy.pc = "respond"
    /\ legacy' = [legacy EXCEPT !.pc = "done", !.response = "ok"]
    /\ UNCHANGED <<telemetryVars, builderVars, probe, toolVars>>

LReturn ==
    /\ legacy.pc = "done"
    /\ legacy' = [legacy EXCEPT !.pc = "idle"]
    /\ UNCHANGED <<telemetryVars, builderVars, probe, toolVars>>

LegacyNext ==
    \/ \E k \in LegacyHandlers : LRequest(k)
    \/ LCountProcesses
    \/ LConnections
    \/ LDiskUsage
    \/ LRespond
    \/ LReturn

LegacySpec == Init /\ [][LegacyNext]_vars

----------------------------------------------------------------------------
\* next_gen/src/managers/backup_manager.py, run by `main.py --backup`.
\*
\* A directory backup_<timestamp> is written as its timestamp, a number of
\* 1..MaxStamp: strftime("%Y%m%d_%H%M%S") has a fixed width, so the order of
\* the names is the order of the timestamps.  backup.dirs is the set of the
\* backup_* directories under BACKUP_BASE_DIR; it outlives the process.
MaxStamp == 7
Stamps == 1..MaxStamp

\* Lines 17-26.
TARGETS ==
    <<"/etc/nginx/sites-available", "/etc/nginx/nginx.conf",
      "/etc/rstudio/rserver.conf", "/etc/rstudio/rsession.conf",
      "/etc/R/Rprofile.site", "/etc/sssd/sssd.conf", "/etc/krb5.conf",
      "/etc/pam.d">>

\* retention_count: int = 5
RetentionCount == 5

\* What the loop finds at a target: nothing, a file or a directory it can
\* copy, or one whose copy raises.
TargetStates == {"missing", "file", "dir", "unreadable"}

\* sorted(names)
RECURSIVE Sorted(_)
Sorted(S) ==
    IF S = {} THEN <<>>
    ELSE LET m == CHOOSE x \in S : \A y \in S : x <= y
         IN  <<m>> \o Sorted(S \ {m})

\* backups[:-retention_count] of the sorted names, if there are more than
\* retention_count of them (lines 85-88).
ToDelete(dirs, retention_count) ==
    LET backups == Sorted(dirs)
    IN  IF Len(backups) > retention_count
        THEN SubSeq(backups, 1, Len(backups) - retention_count)
        ELSE <<>>

\* _rotate_old_backups: shutil.rmtree on the names of to_delete in order;
\* the first rmtree that raises ends the loop in the except clause of line
\* 92, which logs.  done is the number of calls that returned.
Rotated(dirs, done) ==
    LET to_delete == ToDelete(dirs, RetentionCount)
    IN  dirs \ {to_delete[j] : j \in 1..Min(done, Len(to_delete))}

\* main.py lines 24-30: sys.exit(0) if perform_backup() else sys.exit(1)
ExitCode(ret) == IF ret = "True" THEN 0 ELSE 1

\* The except clause of lines 69-70 logs; the loop goes on with the target
\* after the one whose copy raised.
AfterCopyErrorAbort(i) == Len(TARGETS) + 1
AfterCopyError(i) == i + 1

\* main.py line 24, __init__ (lines 28-30): the timestamp is
\* datetime.now(), the local time of day, which is set back when the clock
\* is corrected and when daylight saving time ends.
BkNew ==
    /\ backup.pc \in {"idle", "returned"}
    /\ \E t \in Stamps :
           backup' = [NoBackup EXCEPT !.pc = "init", !.dirs = backup.dirs,
                                      !.stamp = t]
    /\ UNCHANGED <<telemetryVars, builderVars, probe, legacy, detector>>

\* Lines 39-45: os.makedirs(self.backup_dir, exist_ok=True), or OSError and
\* return False.
BkMakeDirs ==
    /\ backup.pc = "init"
    /\ \/ backup' = [backup EXCEPT !.pc = "loop", !.made = TRUE, !.i = 1,
                                    !.dirs = @ \cup {backup.stamp}]
       \/ backup' = [backup EXCEPT !.pc = "returned", !.ret = "False",
                                    !.exit = ExitCode("False")]
    /\ UNCHANGED <<telemetryVars, builderVars, probe, legacy, detector>>

\* Lines 47-70: one iteration of `for target in self.TARGETS`.
BkTarget ==
    /\ backup.pc = "loop"
    /\ backup.i <= Len(TARGETS)
    /\ \E st \in TargetStates :
           backup' =
               CASE st = "missing" ->
                        [backup EXCEPT !.skipped = @ + 1, !.i = @ + 1]
                 [] st \in {"file", "dir"} ->
                        [backup EXCEPT !.copied = @ + 1, !.i = @ + 1]
                 [] st = "unreadable" ->
                        [backup EXCEPT !.failed = @ + 1,
                                       !.i = AfterCopyError(@)]
    /\ UNCHANGED <<telemetryVars, builderVars, probe, legacy, detector>>

\* Lines 72-78, with the call of _rotate_old_backups (lines 80-93).
BkFinish ==
    /\ backup.pc = "loop"
    /\ backup.i > Len(TARGETS)
    /\ \E done \in 0..Len(ToDelete(backup.dirs, RetentionCount)) :
           LET left == IF backup.copied > 0 THEN Rotated(backup.dirs, done)
                                            ELSE backup.dirs
           IN  backup' = [backup EXCEPT !.pc = "returned", !.ret = "True",
                                        !.exit = ExitCode("True"),
                                        !.dirs = left,
                                        !.removed = backup.dirs \ left]
    /\ UNCHANGED <<telemetryVars, builderVars, probe, legacy, detector>>

BackupNext ==
    \/ BkNew
    \/ BkMakeDirs
    \/ BkTarget
    \/ BkFinish

BackupSpec == Init /\ [][BackupNext]_vars

----------------------------------------------------------------------------
\* next_gen/src/detectors/auth_backend.py and next_gen/src/utils/shell.py,
\* run by `main.py --detect-backend`.
Services == {"sssd", "winbind", "smbd"}

\* What subprocess.run does with `systemctl is-active -q <service>`: exit
\* status 0 (active) or 3 (not active), or it raises (no systemctl).
SystemctlOutcomes == {Returns(0), Returns(3), Raises("FileNotFoundError")}

\* /etc/nsswitch.conf: <<>> if there is no such file, else its content.
NsswitchStates ==
    {<<>>, <<"passwd: files systemd">>, <<"passwd: files sss">>,
     <<"passwd: files winbind">>, <<"passwd: files sss winbind">>,
     <<"passwd: files winbind sss">>}

\* The signals of a host.
AuthHosts ==
    [systemctl : [Services -> SystemctlOutcomes],
     sssd_conf : BOOLEAN, smb_conf : BOOLEAN, nsswitch : NsswitchStates]

\* run_command (shell.py lines 9-47): the CompletedProcess, ShellCommandError
\* for a non-zero status under check=True, any other exception as raised.
RunCommand(result, check) ==
    IF result.raised # "none" THEN result
    ELSE IF check /\ result.value # 0 THEN Raises("ShellCommandError")
    ELSE result

\* is_service_active (shell.py lines 49-55)
IsServiceActiveUnlessFailed(h, service_name) ==
    LET res == RunCommand(h.systemctl[service_name], FALSE)
    IN  IF Caught(res.raised, {"Exception"}) THEN TRUE
        ELSE res.value = 0
IsServiceActive(h, service_name) ==
    LET res == RunCommand(h.systemctl[service_name], FALSE)
    IN  IF Caught(res.raised, {"Exception"}) THEN FALSE
        ELSE res.value = 0

\* AuthBackendDetector.detect (lines 18-54)
Detect(h) ==
    IF IsServiceActive(h, "sssd") THEN "SSSD"
    ELSE IF IsServiceActive(h, "winbind") \/ IsServiceActive(h, "smbd")
    THEN "SAMBA"
    ELSE IF h.sssd_conf THEN "SSSD"
    ELSE IF h.smb_conf THEN "SAMBA"
    ELSE IF h.nsswitch = <<>> THEN "NONE"
    ELSE IF IsIn("sss", h.nsswitch[1]) THEN "SSSD"
    ELSE IF IsIn("winbind", h.nsswitch[1]) THEN "SAMBA"
    ELSE "NONE"

\* AuthBackendDetector.get_details (lines 56-62)
GetDetails(h) ==
    LET backend == Detect(h)
    IN  [backend |-> backend, is_domain_joined |-> backend # "NONE"]

CallDetect ==
    /\ detector = NoDetection
    /\ \E h \in AuthHosts :
           detector' = [fn |-> "detect", host |-> h, ret |-> Detect(h)]
    /\ UNCHANGED <<telemetryVars, builderVars, probe, legacy, backup>>

\* main.py lines 17-21
CallGetDetails ==
    /\ detector = NoDetection
    /\ \E h \in AuthHosts :
           detector' = [fn |-> "get_details", host |-> h,
                        ret |-> GetDetails(h)]
    /\ UNCHANGED <<telemetryVars, builderVars, probe, legacy, backup>>

\* The call has returned; the next one can be made.
DetectReturn ==
    /\ detector # NoDetection
    /\ detector' = NoDetection
    /\ UNCHANGED <<telemetryVars, builderVars, probe, legacy, backup>>

DetectNext ==
    \/ CallDetect
    \/ CallGetDetails
    \/ DetectReturn

DetectSpec == Init /\ [][DetectNext]_vars

----------------------------------------------------------------------------
\* Properties.

ReadDone == hpc \in {"age", "done"}
Published(k) == tsOf[k] # -1

\* The tick of the snapshot that was current when the write of tick k began:
\* the latest tick before k whose write completed (0: the initial snapshot).
PrevPublished(k) ==
    CHOOSE j \in 0..(k - 1) :
        /\ Published(j)
        /\ \A i \in (j + 1)..(k - 1) : ~Published(i)

\* C1: every (status, ts) pair returned by read_status was installed by one
\* single write, or is the initial pair ({} , 0.0): the ts read is the ts that
\* the write of the status read installed.
SnapshotAtomicity ==
    (ReadDone /\ ReadsStatus(hkind)) => hTs = tsOf[hStatus.tick]

\* A read_status call that overlapped a write and returned what it installed.
SnapshotAtomicityWitness ==
    /\ hpc = "done"
    /\ ReadsStatus(hkind)
    /\ hOverlap # {}
    /\ hStatus.tick \in hOverlap
    /\ hTs = tsOf[hStatus.tick]

\* C2 as stated: a read racing with the write of tick k returns the snapshot
\* of tick k or of tick k-1, and no read returns an older tick than the read
\* before it.
RaceReturnsTickOrPredecessor ==
    /\ \A k \in 1..MaxTick :
           (hpc = "done" /\ hOverlap = {k}) => Returned \in {k, k - 1}
    /\ hpc = "done" => Returned >= prev.tick

\* C2 amended: a read racing with the write of tick k returns the snapshot of
\* tick k or the one that was current when that write began (tick k-1 only if
\* tick k-1 published one), and no read returns an older tick than the read
\* before it.
RaceReturnsTickOrPrevious ==
    /\ \A k \in 1..MaxTick :
           (hpc = "done" /\ hOverlap = {k}) =>
               Returned \in {k, PrevPublished(k)}
    /\ hpc = "done" => Returned >= prev.tick

\* A read raced with the write of tick 3 and returned the previous snapshot.
RaceReturnsPreviousWitness ==
    /\ hpc = "done"
    /\ hOverlap = {3}
    /\ Returned = PrevPublished(3)
    /\ Returned >= 1
    /\ prev.tick >= 1

\* C3: the refresh thread never ends; a tick that failed is followed by the
\* next tick, and a tick whose collection succeeds publishes its snapshot.
LoopResilience ==
    /\ [](pc["bg"] # "dead")
    /\ [](outcome = "ok" => (cache.status.tick = tick /\ lastPub = tick))
    /\ \A k \in 1..(MaxTick - 1) :
           (tick = k /\ outcome = "failed") ~> (tick = k + 1)

\* Tick 2 failed in the refresh thread and tick 3 published a fresh snapshot.
LoopResilienceWitness ==
    /\ tick = 3
    /\ ~Published(2)
    /\ outcome = "ok"
    /\ cache.status.tick = 3
    /\ pc["bg"] = "sleep"

\* C4: after a tick whose collection raised, the cache (status, exposition
\* bytes, ts) is what it was when the tick started.
FailedTickSkipped ==
    outcome = "failed" => cache = cacheAtStart

\* A tick of the refresh thread failed while a real snapshot was current.
FailedTickSkippedWitness ==
    /\ outcome = "failed"
    /\ pc["bg"] = "sleep"
    /\ cache.status.tick >= 1
    /\ cache = cacheAtStart

\* What a finished read returned is the snapshot c.
ReadIs(c) ==
    IF ReadsStatus(hkind)
    THEN hStatus = c.status /\ hTs = c.ts
    ELSE hProm = c.prometheus

\* C5 as stated: probes run without the lock, and a read made while the
\* probes of tick k+1 run returns the snapshot of tick k.
ReadInProbesReturnsTickBefore ==
    /\ \A t \in Threads : InProbes(t) => lock # t
    /\ (ReadDone /\ hWindow # 0) => Returned = hWindow - 1

\* C5 amended: probes run without the lock, and a read made while the probes
\* of a tick run returns, unchanged, the snapshot that was current when that
\* tick began.
ReadInProbesReturnsCurrent ==
    /\ \A t \in Threads : InProbes(t) => lock # t
    /\ (ReadDone /\ hWindow # 0 /\ hWindow = tick) => ReadIs(cacheAtStart)

\* A read made during the probes of tick 3 returned tick 2's snapshot.
ReadInProbesWitness ==
    /\ hpc = "done"
    /\ hWindow = 3
    /\ tick = 3
    /\ Returned = 2
    /\ ReadIs(cacheAtStart)

\* C6: every handler invocation completes, also when a probe blocks forever,
\* and one made while the probe is blocked returns the last published
\* snapshot.
HandlersCompleteDespiteHang ==
    /\ (hpc = "r_lock") ~> (hpc = "done")
    /\ (hung /\ hpc = "r_lock") ~> (hpc = "done" /\ Returned = lastPub)

\* A handler answered with the last snapshot while a probe was blocked.
HandlersCompleteWitness ==
    /\ hung
    /\ pc["bg"] = "c_probes"
    /\ hpc = "done"
    /\ hWindow = tick
    /\ Returned = lastPub
    /\ lastPub >= 1

\* C7: the startup collection runs before the refresh thread exists and
\* before any handler runs; if it published, no handler reads the initial
\* empty snapshot.
PrimedBeforeServing ==
    /\ pc["main"] # "serve" => (pc["bg"] = "unstarted" /\ hpc = "idle")
    /\ (Published(1) /\ ReadDone) =>
           /\ Returned # 0
           /\ ReadsStatus(hkind) => (hStatus # EmptyStatus /\ hTs # 0)

\* A handler read the snapshot of the startup collection.
PrimedBeforeServingWitness ==
    /\ Published(1)
    /\ hpc = "done"
    /\ Returned = 1
    /\ tick = 1

\* C8: before the first successful write a read returns the empty snapshot
\* and the age reported for it is the time since process start.
EmptyAgeIsSinceStart ==
    (hpc = "done" /\ ReportsAge(hkind) /\ hPubAtRead = 0) =>
        /\ hStatus = EmptyStatus
        /\ hAge = Round1(hNow - procStart)

ConsecutiveReads ==
    /\ hpc = "done"
    /\ ReportsAge(hkind)
    /\ prev.age >= 0
    /\ prev.tick >= 1
    /\ hStatus.tick > prev.tick
    /\ PrevPublished(hStatus.tick) = prev.tick

HandlersNeverFail ==
    hpc = "done" =>
        /\ Response.result = "response"
        /\ hkind = "health" => Response.status = "ok"
        /\ hkind = "metrics" => Response.body = hPubAtRead
        /\ hkind = "public_status" => Response.body.snapshot = hPubAtRead
        /\ hkind = "status_legacy" =>
               \A f \in DOMAIN Response.body :
                   Response.body[f] = hPubAtRead

\* All three ticks failed and status_legacy answers with the defaults.
HandlersNeverFailWitness ==
    /\ hpc = "done"
    /\ hkind = "status_legacy"
    /\ tick = 3
    /\ outcome = "failed"
    /\ lastPub = 0
    /\ Response.result = "response"
    /\ Response.body.cpu_pct = 0

\* C13: no handler of the telemetry endpoint invokes a probe; handling a
\* request only reads what the refresh scheduler published.
HandlersNeverProbe ==
    legacy.probes = {}

\* The position of a call in the try block of _collect().
SysIndex(q) == CHOOSE i \in DOMAIN SysOrder : SysOrder[i] = q

\* The payload entries made from the result of the call q.
SysFieldOf(f, q) ==
    CASE q = "cpu_percent" -> <<f.cpu.pct>>
      [] q = "cpu_count" -> <<f.cpu.cores>>
      [] q = "virtual_memory" -> <<f.ram>>
      [] q = "swap_memory" -> <<f.swap>>
      [] q = "getloadavg" -> <<f.cpu.load_1m, f.cpu.load_5m>>

\* The one probe that failed in the latest _collect() call is the call
\* host.sys.at, with an OS error.
OnlySysProbeFailed ==
    /\ host.sys.err = "OSError"
    /\ host.scan.err = "none"
    /\ \A i \in DOMAIN host.procs :
           host.procs[i].err = "none" /\ host.procs[i].rss # NoMemInfo
    /\ \A m \in {host.tmp, host.nfs_home, host.projects, host.data} :
           m.err = "none"

\* C14: when exactly one probe of a tick fails, the snapshot is published
\* and every field made by a probe that did not fail has the sampled value:
\* here, the system metrics sampled before the failing call, and the
\* session counts.
FailedProbeDegradesOnlyItsField ==
    (outcome = "ok" /\ OnlySysProbeFailed) =>
        /\ cache.status.tick = tick
        /\ \A i \in 1..(SysIndex(host.sys.at) - 1) :
               SysFieldOf(cache.status, SysOrder[i])
                   = SysFieldOf(SysFields(SysSample), SysOrder[i])
        /\ cache.status.sessions.rstudio = CountProcs("rsession", host.procs)
        /\ cache.status.sessions.terminal = TtydConnections(host.scan)

\* C15: whatever errors the probes raise, each is caught where it is
\* raised, and no _collect() call ends with an exception.
BuilderNeverFails ==
    outcome # "failed"

\* The samples _top_r_sessions takes, in the order the processes are seen:
\* one per rsession process that does not vanish or deny access.
Observed(procs) ==
    LET Sampled(p) == IsIn("rsession", NameOrEmpty(p)) /\ p.err = "none"
        seen == SelectSeq(procs, Sampled)
    IN  [i \in 1..Len(seen) |->
            [cpu_pct |-> RoundDiv(seen[i].cpu, 10),
             mem_mb |-> RoundDiv(seen[i].rss, 10),
             age_min |-> RoundDiv(seen[i].lived, 60)]]

\* The rank of sample i: one more than the number of samples with a higher
\* CPU share, or with the same share and seen earlier.
Rank(s, i) ==
    1 + Cardinality({j \in DOMAIN s :
                        \/ s[j].cpu_pct > s[i].cpu_pct
                        \/ s[j].cpu_pct = s[i].cpu_pct /\ j < i})

\* C16: _top_r_sessions(n) returns min(n, number of samples) entries: the
\* sample of rank k is entry k, labelled "Session k"; so the entries are the n
\* highest by CPU share, in descending order, equal shares in the order seen.
TopNRanking ==
    (probe.fn = "_top_r_sessions" /\ probe.ret.raised = "none") =>
        LET s == Observed(probe.procs)
            out == probe.ret.value
        IN  /\ Len(out) = Min(probe.n, Len(s))
            /\ \A i \in DOMAIN s :
                   Rank(s, i) <= probe.n =>
                       out[Rank(s, i)] =
                           [label |-> <<"Session", Rank(s, i)>>,
                            cpu_pct |-> s[i].cpu_pct,
                            mem_mb |-> s[i].mem_mb,
                            age_min |-> s[i].age_min]

\* Three samples, the first and the third with the same CPU share and the
\* second with a higher one, n = 2: the second and then the first come out.
TopNRankingWitness ==
    /\ probe.fn = "_top_r_sessions"
    /\ probe.ret.raised = "none"
    /\ probe.n = 2
    /\ Len(Observed(probe.procs)) = 3
    /\ Observed(probe.procs)[1].cpu_pct = Observed(probe.procs)[3].cpu_pct
    /\ Observed(probe.procs)[1].mem_mb # Observed(probe.procs)[3].mem_mb
    /\ Observed(probe.procs)[2].cpu_pct > Observed(probe.procs)[1].cpu_pct
    /\ Len(probe.ret.value) = 2
    /\ probe.ret.value[2].mem_mb = Observed(probe.procs)[1].mem_mb

\* C17: _ollama_active is true exactly when a process matches "ollama" or
\* the connection scan succeeds and shows an established connection on the
\* service port; a scan that is refused counts as no connection.
OllamaLivenessIsOr ==
    probe.fn = "_ollama_active" =>
        LET processSignal ==
                \E i \in DOMAIN probe.procs :
                    MatchesProc("ollama", probe.procs[i])
            connectionSignal ==
                /\ probe.scan.err = "none"
                /\ \E i \in DOMAIN probe.scan.conns :
                       /\ probe.scan.conns[i].port = OllamaPort
                       /\ probe.scan.conns[i].status = "ESTABLISHED"
        IN  probe.ret = (processSignal \/ connectionSignal)

\* Processes, none of them the service, and a refused scan: not active.
OllamaLivenessWitness ==
    /\ probe.fn = "_ollama_active"
    /\ Len(probe.procs) = 2
    /\ probe.scan.err = "AccessDenied"
    /\ probe.ret = FALSE

\* C18: for a missing path or a failing disk_usage call _disk_info returns
\* the dict with the one key `available` (false), with no size and no
\* percentage; otherwise available is true and all four numbers are there.
DiskInfoUnavailable ==
    probe.fn = "_disk_info" =>
        IF ~probe.d.exists \/ probe.d.err = "OSError"
        THEN /\ DOMAIN probe.ret = {"available"}
             /\ probe.ret.available = FALSE
        ELSE /\ DOMAIN probe.ret =
                    {"available", "total_gb", "used_gb", "free_gb", "pct"}
             /\ probe.ret.available = TRUE
             /\ probe.ret.free_gb = RoundDiv(probe.d.free, 10)

\* The path exists and disk_usage raises OSError.
DiskInfoUnavailableWitness ==
    /\ probe.fn = "_disk_info"
    /\ probe.d.exists
    /\ probe.d.err = "OSError"
    /\ probe.ret = [available |-> FALSE]

\* C19: every entry of the top-process list of an installed snapshot has
\* exactly the fields label, cpu_pct, mem_mb and age_min (no pid, user, name
\* or command line), and the label of the entry at rank k is "Session k".
TopEntriesAnonymous ==
    cache.status # EmptyStatus =>
        \A k \in DOMAIN cache.status.r_sessions :
            /\ DOMAIN cache.status.r_sessions[k] =
                   {"label", "cpu_pct", "mem_mb", "age_min"}
            /\ cache.status.r_sessions[k].label = <<"Session", k>>

\* An installed snapshot that lists two rsession processes.
TopEntriesAnonymousWitness ==
    /\ outcome = "ok"
    /\ Len(host.procs) = 2
    /\ Len(cache.status.r_sessions) = 2
    /\ cache.status.r_sessions[1].cpu_pct > cache.status.r_sessions[2].cpu_pct

\* What a free-disk gauge shows for the result of a disk probe: the free
\* bytes of an available mount; nothing (a gauge never set reads 0) for an
\* unavailable one.
GaugeFor(info) == IF info.available THEN GaugeBytes(info.free_gb) ELSE 0

\* C20: the exposition bytes of the cache show the session counts of the
\* cached status, and each free-disk gauge shows the result the disk probe
\* had in the tick that published the bytes, not one of an earlier tick.
ExpositionMatchesStatus ==
    /\ (lock = "free" /\ cache.status # EmptyStatus) =>
           /\ cache.prometheus.rstudio = cache.status.sessions.rstudio
           /\ cache.prometheus.terminal = cache.status.sessions.terminal
           /\ cache.prometheus.projects_free
                  = GaugeFor(cache.status.disk.projects)
    /\ outcome = "ok" => cache.prometheus.data_free = GaugeFor(loc.data_d)

\* C21: the process counter returns, without raising, the number of
\* processes whose name or one of whose command-line arguments contains the
\* substring; a process whose name or command line is not available (None:
\* it vanished or access was denied) counts only by what is available.
CounterCountsMatches ==
    probe.fn \in {"_count_procs", "count_processes_by_name"} =>
        /\ probe.ret.raised = "none"
        /\ probe.ret.value =
               Cardinality(
                   {i \in DOMAIN probe.procs :
                       LET p == probe.procs[i]
                       IN  \/ p.name # <<>> /\ IsIn(probe.name_sub, p.name[1])
                           \/ /\ p.cmdline # <<>>
                              /\ \E k \in DOMAIN p.cmdline[1] :
                                     IsIn(probe.name_sub, p.cmdline[1][k])})

\* The contexts inside a `with self._lock:` block of _Cache.
InCritical ==
    {t \in Threads : pc[t] \in {"w_status", "w_prom", "w_ts"}}
        \cup (IF hpc \in {"r_status", "r_prom"} THEN {"http"} ELSE {})

\* C22: at most one context is inside a critical section of the cache, and
\* it holds the lock; _Cache.write is run by the startup collection before
\* the refresh thread exists and by the refresh thread afterwards, never by
\* both; every change of the cache is a step of a writer holding the lock,
\* and no step of a request handler changes the cache.
ExclusionAndSingleWriter ==
    /\ [](/\ Cardinality(InCritical) <= 1
          /\ InCritical \subseteq {lock}
          /\ ~(InWrite("main") /\ InWrite("bg"))
          /\ InWrite("main") => pc["bg"] = "unstarted"
          /\ InWrite("bg") => pc["main"] = "serve")
    /\ [][cache' # cache =>
             \E t \in Threads : lock = t /\ InCritical = {t}]_vars
    /\ [][Handler => cache' = cache]_vars

\* A request waits for the lock while the refresh thread is half-way through
\* a write, the status installed and the exposition not yet.
ExclusionWitness ==
    /\ hpc = "r_lock"
    /\ lock = "bg"
    /\ pc["bg"] = "w_prom"
    /\ cache.status.tick # cache.prometheus

\* C23: the cache_age_s item public_status sets on the status it read stays
\* in its own response: the step that sets it leaves the cached status as it
\* was, the cached status never has a cache_age_s key, and no status a
\* reader gets from the cache has one.
AgeStaysInResponse ==
    /\ []("cache_age_s" \notin DOMAIN cache.status)
    /\ []("cache_age_s" \notin DOMAIN hStatus)
    /\ [][HAge => cache'.status = cache.status]_vars

\* public_status has set cache_age_s on a copy of the status that is still
\* the cached one, after an earlier request that reported an age as well.
AgeStaysInResponseWitness ==
    /\ hpc = "done"
    /\ hkind = "public_status"
    /\ Response.body.cache_age_s = hAge
    /\ hStatus.tick >= 1
    /\ cache.status = hStatus
    /\ prev.age >= 0

\* C24: after a run of perform_backup that copied a target, at most five
\* backup_* directories remain, every directory the run removed is older by
\* name than every directory left, and the directory of the run itself is
\* not among the removed.
RotationKeepsLastFive ==
    (backup.pc = "returned" /\ backup.copied > 0) =>
        /\ Cardinality(backup.dirs) <= RetentionCount
        /\ \A r \in backup.removed : \A d \in backup.dirs : r < d
        /\ backup.stamp \notin backup.removed

\* C25: perform_backup returns False exactly when the backup directory
\* could not be created and True otherwise, whatever was copied; when it
\* returns True every target was either skipped as missing, copied, or
\* failed to copy, a failed copy being followed by the next target; the
\* process exits with 0 after True and with 1 after False.
BackupResult ==
    /\ [](backup.pc = "returned" =>
            /\ backup.ret \in {"True", "False"}
            /\ backup.ret = "False" <=> ~backup.made
            /\ backup.ret = "True" =>
                   backup.copied + backup.failed + backup.skipped
                       = Len(TARGETS)
            /\ backup.exit = (IF backup.ret = "True" THEN 0 ELSE 1))
    /\ [][(backup.pc = "loop" /\ backup'.failed > backup.failed) =>
              /\ backup'.pc = "loop"
              /\ backup'.i = backup.i + 1
              /\ backup'.ret = "none"]_vars

\* A run that returned True with a missing target, a failed copy and a
\* copied target.
BackupResultWitness ==
    /\ backup.pc = "returned"
    /\ backup.ret = "True"
    /\ backup.skipped >= 1
    /\ backup.failed >= 1
    /\ backup.copied >= 1

\* The backend a finished call of detect or get_details reported.
Reported ==
    IF detector.fn = "detect" THEN detector.ret ELSE detector.ret.backend

\* systemctl ran for the service and exited with status 0.
ReportedActive(service) ==
    detector.host.systemctl[service] = [raised |-> "none", value |-> 0]

\* The nsswitch.conf of the host exists and names the source.
NsswitchNames(source) ==
    /\ detector.host.nsswitch # <<>>
    /\ \/ source = "sss" /\
             detector.host.nsswitch[1] \in
                 {"passwd: files sss", "passwd: files sss winbind",
                  "passwd: files winbind sss"}
       \/ source = "winbind" /\
             detector.host.nsswitch[1] \in
                 {"passwd: files winbind", "passwd: files sss winbind",
                  "passwd: files winbind sss"}

\* C26: the detected backend follows the priority cascade: active sssd,
\* active winbind or smbd, sssd.conf, smb.conf, sss in nsswitch.conf,
\* winbind in nsswitch.conf; NONE exactly when none of these signals is
\* present; a service whose status command failed counts as not active;
\* get_details reports is_domain_joined exactly when the backend is not
\* NONE.
DetectionCascade ==
    detector # NoDetection =>
        LET svc == ReportedActive("winbind") \/ ReportedActive("smbd")
            h == detector.host
            cascade ==
                IF ReportedActive("sssd") THEN "SSSD"
                ELSE IF svc THEN "SAMBA"
                ELSE IF h.sssd_conf THEN "SSSD"
                ELSE IF h.smb_conf THEN "SAMBA"
                ELSE IF NsswitchNames("sss") THEN "SSSD"
                ELSE IF NsswitchNames("winbind") THEN "SAMBA"
                ELSE "NONE"
            signal ==
                \/ \E s \in Services : ReportedActive(s)
                \/ h.sssd_conf \/ h.smb_conf
                \/ NsswitchNames("sss") \/ NsswitchNames("winbind")
        IN  /\ Reported = cascade
            /\ Reported = "NONE" <=> ~signal
            /\ detector.fn = "get_details" =>
                   (detector.ret.is_domain_joined <=> Reported # "NONE")

\* The status command of sssd failed and that of smbd reported it active,
\* with sssd.conf present: SAMBA is reported, and the host joined.
DetectionCascadeWitness ==
    /\ detector # NoDetection
    /\ detector.fn = "get_details"
    /\ detector.host.systemctl["sssd"].raised # "none"
    /\ ~ReportedActive("winbind")
    /\ ReportedActive("smbd")
    /\ detector.host.sssd_conf
    /\ detector.ret = [backend |-> "SAMBA", is_domain_joined |-> TRUE]

====
